---- MODULE Spec2Model ----
(***************************************************************************)
(* The backtest engine of src/backtest.py and the parameter optimizer of   *)
(* src/param_optimizer.py as state machines.                               *)
(*                                                                         *)
(*   Spec          execute_trades walking a signal-annotated table row by  *)
(*                 row (the rows are the caller's: any flags, any prices). *)
(*   SpecBacktest  backtest_strategy: the table's open column is repaired, *)
(*                 next_open is derived from it, then execute_trades runs. *)
(*   SpecStats     calculate_max_drawdown, calculate_kelly_parameters and  *)
(*                 calculate_kelly_fraction called on their own.           *)
(*   SpecConfig    StrategyConfig.update_params on a configuration object. *)
(*   SpecLong      execute_trades on longer tables with fewer prices.      *)
(*   SpecSignals   generate_sell_signals on a table of indicator rows.     *)
(*   SpecBatch     main: one run per security, then the aggregate report.  *)
(*   SpecOptimizer ParameterOptimizer.evaluate_params of                   *)
(*                 src/param_optimizer.py, trial after trial.              *)
(*   SpecScoring   the same from the batch results on, with drawn results. *)
(*   SpecBuySignals generate_buy_signals on a table of indicator rows.     *)
(*   SpecGrid      grid_search from its process pool on.                   *)
(*   SpecBayes     bayesian_optimization: the trials of the study and the  *)
(*                 CustomStopCallback after each.                          *)
(*                                                                         *)
(* Prices and money are Python floats in the source.  They are modelled as *)
(* exact rationals [n, d] in lowest terms with d > 0; the float NaN is the *)
(* value with d = 0.  Rounding of binary floating point is not modelled.   *)
(*                                                                         *)
(* The DataFrame columns with Chinese names are rendered as record fields: *)
(*   signal '信号' ("" | "buy" '买入' | "sell" '卖出'),                    *)
(*   trade_price '交易价格', buy_qty '买入数量', sell_qty '卖出数量',      *)
(*   trade_profit '当次交易收益', trade_return '当次交易收益率',           *)
(*   cum_profit '累计收益', cash_balance '现金余额',                       *)
(*   asset_balance '资产余额', position_qty '持仓数量',                    *)
(*   position_value '持仓价值'.                                            *)
(***************************************************************************)
EXTENDS Integers, Sequences, FiniteSets, TLC

VARIABLES
    pc,             \* control location of the run
    config,         \* the StrategyConfig handed to execute_trades
    df,             \* the rows processed so far: input columns and ledger columns
    cash,           \* execute_trades local
    position,       \* execute_trades local
    trades,         \* execute_trades local
    profits,        \* execute_trades local: realized profit of each sell
    buy_price,      \* execute_trades local
    buy_date,       \* execute_trades local: index of the row of the last buy
    highest_price,  \* execute_trades local: high-water price since entry
    results,        \* results_dict once the run has returned
    open_col,       \* backtest_strategy: df['open']
    next_open_col,  \* backtest_strategy: df['next_open']
    columns,        \* backtest_strategy: the names in df.columns as delivered
    stat_profits,   \* a profits list handed to the summary functions
    stat_dd,        \* calculate_max_drawdown(stat_profits) as last returned
    kelly_args,     \* <<win_rate, odds>> of the last calculate_kelly_fraction call
    kelly_ret,      \* what that call returned
    cfg,            \* a StrategyConfig object: its instance attributes
    cfg_log,        \* the keys logging.warning was called with, in order
    cfg_call,       \* the last update_params call: its argument and the object before
    sig_df,         \* the table handed to the signal generators
    results_history,\* ParameterOptimizer.results_history
    best_score,     \* ParameterOptimizer.best_score: <<>> for -inf, else <<score>>
    best_params,    \* ParameterOptimizer.best_params: <<>> for None, else <<params>>
    trial_log,      \* the evaluate_params calls so far: argument, batch result, return value
    stock_results,  \* main: stock code -> results of its run
    securities,     \* main: the runs so far, in order: the code, whether the run failed
    summary,        \* main: the aggregate figures once the batch is through
    param_combinations, \* grid_search: the combinations handed to executor.map
    dispatched,     \* grid_search: how many of them a worker process has taken
    running,        \* grid_search: worker process -> the call it runs, 0 when idle
    map_results,    \* grid_search: call -> <<>> while pending, else <<return value>>
    trial_count,    \* bayesian_optimization: the trials the study has run
    study_best,     \* study.best_value: <<>> while no trial is complete
    cb_best_value,  \* CustomStopCallback.best_value: <<>> for inf
    n_steps_without_improvement, \* CustomStopCallback.n_steps_without_improvement
    stop_flag       \* whether study.stop() was called

execVars == <<pc, config, df, cash, position, trades, profits, buy_price, buy_date,
              highest_price, results>>
tableVars == <<open_col, next_open_col, columns>>
statsVars == <<stat_profits, stat_dd, kelly_args, kelly_ret>>
cfgVars == <<cfg, cfg_log, cfg_call>>
sigVars == <<sig_df>>
optVars == <<results_history, best_score, best_params, trial_log>>
batchVars == <<stock_results, securities, summary>>
gridVars == <<param_combinations, dispatched, running, map_results>>
bayesVars == <<trial_count, study_best, cb_best_value, n_steps_without_improvement,
               stop_flag>>
searchVars == <<gridVars, bayesVars>>
otherVars == <<sigVars, optVars, batchVars, searchVars>>
vars == <<execVars, tableVars, statsVars, cfgVars, otherVars>>

----------------------------------------------------------------------------
(* Bounds of the model. *)

\* Longest table handed to execute_trades.
MaxLen == 3
\* Longest table handed to execute_trades in the runs with two round trips.
MaxLongLen == 4
\* Longest table handed to backtest_strategy.
MaxRows == 3
\* Longest profits list handed to the summary functions.
MaxProfits == 3
\* calculate_kelly_fraction is called with win rates k/KellyGrid, k = 0..KellyGrid,
\* and odds j/2, j = -2..MaxOdds.
KellyGrid == 4
MaxOdds == 6
\* Longest table handed to the signal generators.
MaxSigRows == 2
MaxBuyRows == 2
MaxCombos == 2
MaxWorkers == 2
\* Most securities in the batch of one parameter evaluation.
MaxStocks == 2
\* Most evaluate_params calls of one search.
MaxTrials == 2
\* Most securities in the file handed to the batch driver.
MaxSecurities == 3
\* Most keys in the mapping of one update_params call.
MaxParams == 2
\* Calls of update_params on one object.
MaxCalls == 2

----------------------------------------------------------------------------
(* Exact rational arithmetic standing for Python float arithmetic. *)

Abs(x) == IF x < 0 THEN -x ELSE x

RECURSIVE GCD(_, _)
GCD(a, b) == IF b = 0 THEN a ELSE GCD(b, a % b)

Norm(n, d) ==
    LET s == IF d < 0 THEN -1 ELSE 1
        g == GCD(Abs(n), Abs(d))
    IN  [n |-> (s * n) \div g, d |-> (s * d) \div g]

R(k) == [n |-> k, d |-> 1]
NaN == [n |-> 0, d |-> 0]
Zero == R(0)
IsNaN(x) == x.d = 0

RAdd(a, b) == IF IsNaN(a) \/ IsNaN(b) THEN NaN ELSE Norm(a.n * b.d + b.n * a.d, a.d * b.d)
RSub(a, b) == IF IsNaN(a) \/ IsNaN(b) THEN NaN ELSE Norm(a.n * b.d - b.n * a.d, a.d * b.d)
RMul(a, b) == IF IsNaN(a) \/ IsNaN(b) THEN NaN ELSE Norm(a.n * b.n, a.d * b.d)
\* Callers guard the divisor as the source does; x / 0 is never evaluated.
RDiv(a, b) == IF IsNaN(a) \/ IsNaN(b) THEN NaN ELSE Norm(a.n * b.d, a.d * b.n)
\* Every comparison with NaN is false, as in Python.
RLt(a, b) == ~IsNaN(a) /\ ~IsNaN(b) /\ a.n * b.d < b.n * a.d
RLe(a, b) == ~IsNaN(a) /\ ~IsNaN(b) /\ a.n * b.d <= b.n * a.d
RGt(a, b) == RLt(b, a)
RGe(a, b) == RLe(b, a)
RMax(a, b) == IF RGt(b, a) THEN b ELSE a
RMin(a, b) == IF RLt(b, a) THEN b ELSE a

RECURSIVE RSum(_)
RSum(s) == IF s = <<>> THEN Zero ELSE RAdd(s[1], RSum(Tail(s)))

----------------------------------------------------------------------------
(* StrategyConfig: the two parameters execute_trades reads. *)

INITIAL_AMOUNT == 10000
MIN_HOLD_DAYS == 2

\* Minimum holding periods a caller's configuration may carry: the default
\* and none (the spec's own first scenario).
MinHoldChoices == {0, MIN_HOLD_DAYS}

StrategyConfig(min_hold) ==
    [INITIAL_AMOUNT |-> INITIAL_AMOUNT, MIN_HOLD_DAYS |-> min_hold]

----------------------------------------------------------------------------
(* Performance summary: calculate_max_drawdown, calculate_kelly_parameters, *)
(* calculate_kelly_fraction.                                                *)

Half == Norm(1, 2)

RECURSIVE MaxDrawdownLoop_LastOnly(_, _, _)
\* Mutant: the drawdown of the latest point kept instead of the largest.
MaxDrawdownLoop_LastOnly(rest, peak, max_drawdown) ==
    IF rest = <<>> THEN max_drawdown
    ELSE LET p == rest[1] IN
         IF IsNaN(p) THEN MaxDrawdownLoop_LastOnly(Tail(rest), peak, max_drawdown)
         ELSE LET peak1 == IF RGt(p, peak) THEN p ELSE peak
                  drawdown == IF RGt(peak1, Zero)
                              THEN RDiv(RSub(peak1, p), peak1) ELSE Zero
              IN  MaxDrawdownLoop_LastOnly(Tail(rest), peak1, drawdown)

RECURSIVE MaxDrawdownLoop(_, _, _)
\* The for loop of calculate_max_drawdown over the rest of the list.
MaxDrawdownLoop(rest, peak, max_drawdown) ==
    IF rest = <<>> THEN max_drawdown
    ELSE LET p == rest[1] IN
         IF IsNaN(p) THEN MaxDrawdownLoop(Tail(rest), peak, max_drawdown)
         ELSE LET peak1 == IF RGt(p, peak) THEN p ELSE peak
                  drawdown == IF RGt(peak1, Zero)
                              THEN RDiv(RSub(peak1, p), peak1) ELSE Zero
              IN  MaxDrawdownLoop(Tail(rest), peak1, RMax(max_drawdown, drawdown))

calculate_max_drawdown(ps) ==
    IF ps = <<>> THEN Zero ELSE MaxDrawdownLoop(ps, ps[1], Zero)

Winning(ps) == SelectSeq(ps, LAMBDA p : RGt(p, Zero))
Losing(ps) == SelectSeq(ps, LAMBDA p : RLt(p, Zero))
Mean(ps) == RDiv(RSum(ps), R(Len(ps)))
RAbs(x) == IF RLt(x, Zero) THEN RSub(Zero, x) ELSE x

\* <<win_rate, odds>>
calculate_kelly_parameters(ps) ==
    IF ps = <<>> THEN <<Zero, Zero>>
    ELSE LET win_rate == RDiv(R(Len(Winning(ps))), R(Len(ps)))
             avg_win == IF Winning(ps) # <<>> THEN Mean(Winning(ps)) ELSE Zero
             avg_loss == IF Losing(ps) # <<>> THEN RAbs(Mean(Losing(ps))) ELSE Zero
             odds == IF avg_loss # Zero THEN RDiv(avg_win, avg_loss) ELSE Zero
         IN  <<win_rate, odds>>

\* Mutant: half-Kelly without the limits.
calculate_kelly_fraction_Unclamped(win_rate, odds) ==
    IF RLe(odds, Zero) \/ RLe(win_rate, Zero) THEN Zero
    ELSE RDiv(RDiv(RSub(RMul(odds, win_rate), RSub(R(1), win_rate)), odds), R(2))

calculate_kelly_fraction(win_rate, odds) ==
    IF RLe(odds, Zero) \/ RLe(win_rate, Zero) THEN Zero
    ELSE LET kelly_fraction ==
                 RDiv(RSub(RMul(odds, win_rate), RSub(R(1), win_rate)), odds)
             half_kelly == RDiv(kelly_fraction, R(2))
         IN  RMax(Zero, RMin(Half, half_kelly))

----------------------------------------------------------------------------
(* execute_trades: one action per branch of the body of its row loop.  A   *)
(* row's inputs are drawn when the loop reaches the row.                    *)

\* Values of the next_open column: missing, negative, zero, two valid ones.
NextOpens == {NaN, R(-1), Zero, R(10), R(12)}
\* One close, different from every execution price.
Closes == {R(11)}
\* open and high only feed the high-water price.  A table without a 'high'
\* column behaves as one whose high equals its close on every row.
Opens == {R(10), R(14)}
Highs == Closes \cup {R(14)}

\* What the loop reads of a row while flat, and what it reads while holding.
Rows ==
    [buy_condition : BOOLEAN, sell_condition : BOOLEAN, next_open : NextOpens,
     close : Closes]
Inputs ==
    [buy_condition : BOOLEAN, sell_condition : BOOLEAN, next_open : NextOpens,
     close : Closes, open : Opens, high : Highs]

\* Row i as the loop finds it: the input columns, the result columns as
\* initialised, and the four columns inherited from row i-1.
InheritedRow(in) ==
    LET first == df = <<>>
        prev == df[Len(df)]
    IN  [buy_condition |-> in.buy_condition,
         sell_condition |-> in.sell_condition,
         next_open |-> in.next_open,
         close |-> in.close,
         signal |-> "",
         trade_price |-> Zero,
         buy_qty |-> Zero,
         sell_qty |-> Zero,
         trade_profit |-> Zero,
         trade_return |-> Zero,
         position_value |-> Zero,
         cash_balance |-> IF first THEN R(config.INITIAL_AMOUNT) ELSE prev.cash_balance,
         asset_balance |-> IF first THEN Zero ELSE prev.asset_balance,
         cum_profit |-> IF first THEN Zero ELSE prev.cum_profit,
         position_qty |-> IF first THEN Zero ELSE prev.position_qty]

\* ... with the holding value and the asset balance of the day written.
OpenedRow(in) ==
    LET r == InheritedRow(in)
        value == RMul(r.position_qty, in.close)
    IN  [r EXCEPT !.position_value = value,
                  !.asset_balance = RAdd(r.cash_balance, value)]

\* position = df.at[i, '持仓数量'], which row i inherited from row i-1.
PositionAt == IF df = <<>> THEN Zero ELSE df[Len(df)].position_qty

\* Mutant: the buy branch taken without looking at the row's buy flag.
BuyTriggered_NoFlag(pos, buy_condition) == pos = Zero
BuyTriggered(pos, buy_condition) == pos = Zero /\ buy_condition
\* Mutant: only a missing price stops a buy.
BuyPriceInvalid_OnlyNaN(price) == IsNaN(price)
BuyPriceInvalid(price) == IsNaN(price) \/ RLe(price, Zero)
\* Mutant: only a missing price stops a sell.
SellPriceInvalid_OnlyNaN(price) == IsNaN(price)
SellPriceInvalid(price) == IsNaN(price) \/ RLt(price, Zero)
\* Mutant: whole shares only.
BuyQuantity_WholeShares(c, price) == R((c.n * price.d) \div (c.d * price.n))
BuyQuantity(c, price) == RDiv(c, price)
\* Mutant: the day of the entry counted as a day held.
MinHoldSatisfied_OffByOne(days_held) == days_held + 1 >= config.MIN_HOLD_DAYS
MinHoldSatisfied(days_held) == days_held >= config.MIN_HOLD_DAYS
\* Mutant: the proceeds of the sale taken for its profit.
CurrentProfit_Proceeds(qty, sell_price, bought_at) == RMul(qty, sell_price)
\* Mutant: the profit of one share.
CurrentProfit_PerShare(qty, sell_price, bought_at) == RSub(sell_price, bought_at)
CurrentProfit(qty, sell_price, bought_at) == RMul(qty, RSub(sell_price, bought_at))
CurrentReturn(sell_price, bought_at) ==
    IF RGt(bought_at, Zero) THEN RDiv(RSub(sell_price, bought_at), bought_at) ELSE Zero

\* The day's true high against the previous close.
TrueHigh(in) ==
    IF df # <<>> /\ RGt(in.open, df[Len(df)].close)
    THEN RMax(in.high, in.open) ELSE in.high
HighestPrice(in) ==
    IF RGt(TrueHigh(in), highest_price) THEN TrueHigh(in) ELSE highest_price

\* The strategy's sell signal counts only after the minimum holding period.
SellCondition(in) ==
    MinHoldSatisfied(Len(df) - buy_date) /\ in.sell_condition

InLoop == pc = "execute_trades"

\* Neither branch: flat and not buy-eligible.
Idle(in) ==
    LET r == OpenedRow(in) IN
    /\ InLoop
    /\ ~BuyTriggered(PositionAt, in.buy_condition)
    /\ ~RGt(PositionAt, Zero)
    /\ df' = Append(df, r)
    /\ cash' = r.cash_balance
    /\ position' = r.position_qty
    /\ UNCHANGED <<pc, config, trades, profits, buy_price, buy_date,
                   highest_price, results, tableVars, statsVars, cfgVars, otherVars>>

\* Buy branch left by 'continue': the price is missing or not positive.
BuySkipped(in) ==
    LET r == OpenedRow(in) IN
    /\ InLoop
    /\ BuyTriggered(PositionAt, in.buy_condition)
    /\ BuyPriceInvalid(in.next_open)
    /\ buy_price' = in.next_open
    /\ df' = Append(df, r)
    /\ cash' = r.cash_balance
    /\ position' = r.position_qty
    /\ UNCHANGED <<pc, config, trades, profits, buy_date, highest_price, results,
                   tableVars, statsVars, cfgVars, otherVars>>

Buy(in) ==
    LET r == OpenedRow(in)
        buy_quantity == BuyQuantity(r.cash_balance, in.next_open)
    IN
    /\ InLoop
    /\ BuyTriggered(PositionAt, in.buy_condition)
    /\ ~BuyPriceInvalid(in.next_open)
    /\ buy_price' = in.next_open
    /\ position' = buy_quantity
    /\ cash' = Zero
    /\ trades' = trades + 1
    /\ buy_date' = Len(df)
    /\ highest_price' = in.next_open
    /\ df' = Append(df, [r EXCEPT !.signal = "buy",
                                  !.trade_price = in.next_open,
                                  !.buy_qty = buy_quantity,
                                  !.position_qty = buy_quantity,
                                  !.cash_balance = Zero])
    /\ UNCHANGED <<pc, config, profits, results, tableVars, statsVars, cfgVars, otherVars>>

\* Holding branch without a sale: too early, or the row is not sell-eligible.
Hold(in) ==
    LET r == OpenedRow(in) IN
    /\ InLoop
    /\ ~BuyTriggered(PositionAt, in.buy_condition)
    /\ RGt(PositionAt, Zero)
    /\ ~SellCondition(in)
    /\ highest_price' = HighestPrice(in)
    /\ df' = Append(df, r)
    /\ cash' = r.cash_balance
    /\ position' = r.position_qty
    /\ UNCHANGED <<pc, config, trades, profits, buy_price, buy_date, results,
                   tableVars, statsVars, cfgVars, otherVars>>

\* Holding branch left by 'continue': the sale's price is missing or negative.
SellSkipped(in) ==
    LET r == OpenedRow(in) IN
    /\ InLoop
    /\ ~BuyTriggered(PositionAt, in.buy_condition)
    /\ RGt(PositionAt, Zero)
    /\ SellCondition(in)
    /\ SellPriceInvalid(in.next_open)
    /\ highest_price' = HighestPrice(in)
    /\ df' = Append(df, r)
    /\ cash' = r.cash_balance
    /\ position' = r.position_qty
    /\ UNCHANGED <<pc, config, trades, profits, buy_price, buy_date, results,
                   tableVars, statsVars, cfgVars, otherVars>>

Sell(in) ==
    LET r == OpenedRow(in)
        sell_price == in.next_open
        sell_quantity == r.position_qty
        cash1 == RAdd(r.cash_balance, RMul(sell_quantity, sell_price))
        current_profit == CurrentProfit(sell_quantity, sell_price, buy_price)
        current_return == CurrentReturn(sell_price, buy_price)
    IN
    /\ InLoop
    /\ ~BuyTriggered(PositionAt, in.buy_condition)
    /\ RGt(PositionAt, Zero)
    /\ SellCondition(in)
    /\ ~SellPriceInvalid(sell_price)
    /\ highest_price' = HighestPrice(in)
    /\ cash' = cash1
    /\ profits' = Append(profits, current_profit)
    /\ position' = Zero
    /\ df' = Append(df, [r EXCEPT !.signal = "sell",
                                  !.trade_price = sell_price,
                                  !.sell_qty = sell_quantity,
                                  !.trade_profit = current_profit,
                                  !.trade_return = current_return,
                                  !.cum_profit = RAdd(r.cum_profit, current_profit),
                                  !.position_qty = Zero,
                                  !.cash_balance = cash1])
    /\ UNCHANGED <<pc, config, trades, buy_price, buy_date, results,
                   tableVars, statsVars, cfgVars, otherVars>>

RECURSIVE TradeRecordsFrom(_, _)
TradeRecordsFrom(table, i) ==
    IF i > Len(table) THEN <<>>
    ELSE LET r == table[i]
             rec == [trade_date |-> i, signal |-> r.signal,
                     trade_price |-> r.trade_price, buy_qty |-> r.buy_qty,
                     sell_qty |-> r.sell_qty, trade_profit |-> r.trade_profit,
                     trade_return |-> r.trade_return]
         IN  (IF r.signal \in {"buy", "sell"} THEN <<rec>> ELSE <<>>)
                 \o TradeRecordsFrom(table, i + 1)
\* trade_df: the trade columns of the rows that carry a signal; a row's date
\* is its place in the table.
TradeRecords(table) == TradeRecordsFrom(table, 1)

ResultTrades == trades

\* Mutant: the position still open is valued at the last close and counted
\* with the realized profits.
ResultsDict_MarkedToMarket ==
    LET final_value == IF RGt(position, Zero)
                       THEN RAdd(cash, RMul(position, df[Len(df)].close)) ELSE cash
        total_profit == RSub(final_value, R(config.INITIAL_AMOUNT))
        win_rate == IF profits # <<>>
                    THEN RDiv(R(Len(Winning(profits))), R(Len(profits))) ELSE Zero
        total_return == RMul(RDiv(total_profit, R(config.INITIAL_AMOUNT)), R(100))
        kelly == calculate_kelly_parameters(profits)
    IN  [trades |-> ResultTrades,
         win_rate |-> win_rate,
         total_profit |-> total_profit,
         profit_rate |-> total_return,
         trade_records |-> TradeRecords(df),
         kelly_params |-> [win_rate |-> kelly[1], odds |-> kelly[2],
                           kelly_fraction |-> calculate_kelly_fraction(kelly[1], kelly[2])],
         trade_stats |-> [avg_win |-> kelly[1], avg_loss |-> kelly[2],
                          max_drawdown |-> calculate_max_drawdown(profits)]]

ResultsDict ==
    LET total_profit == IF profits # <<>> THEN RSum(profits) ELSE Zero
        win_rate == IF profits # <<>>
                    THEN RDiv(R(Len(Winning(profits))), R(Len(profits))) ELSE Zero
        total_return == RMul(RDiv(total_profit, R(config.INITIAL_AMOUNT)), R(100))
        kelly == calculate_kelly_parameters(profits)
    IN  [trades |-> ResultTrades,
         win_rate |-> win_rate,
         total_profit |-> total_profit,
         profit_rate |-> total_return,
         trade_records |-> TradeRecords(df),
         kelly_params |-> [win_rate |-> kelly[1], odds |-> kelly[2],
                           kelly_fraction |-> calculate_kelly_fraction(kelly[1], kelly[2])],
         trade_stats |-> [avg_win |-> kelly[1], avg_loss |-> kelly[2],
                          max_drawdown |-> calculate_max_drawdown(profits)]]

NoResults == [trades |-> -1]

\* The loop has run through the table: the statistics are computed and returned.
Return ==
    /\ pc = "execute_trades"
    /\ pc' = "done"
    /\ results' = ResultsDict
    /\ UNCHANGED <<config, df, cash, position, trades, profits, buy_price,
                   buy_date, highest_price, tableVars, statsVars, cfgVars, otherVars>>

\* The locals of execute_trades as it initialises them.
ExecStart ==
    /\ df = <<>>
    /\ cash = R(config.INITIAL_AMOUNT)
    /\ position = Zero
    /\ trades = 0
    /\ profits = <<>>
    /\ buy_price = Zero
    /\ buy_date = 0
    /\ highest_price = Zero
    /\ results = NoResults

\* The parts of the state a specification does not exercise.
NoTable == open_col = <<>> /\ next_open_col = <<>> /\ columns = {}
NoStats ==
    /\ stat_profits = <<>>
    /\ stat_dd = Zero
    /\ kelly_args = <<Zero, Zero>>
    /\ kelly_ret = Zero
NoConfigObject == cfg = <<>> /\ cfg_log = <<>> /\ cfg_call = <<>>
NoSignals == sig_df = <<>>
NoOptimizer ==
    /\ results_history = <<>>
    /\ best_score = <<>>
    /\ best_params = <<>>
    /\ trial_log = <<>>
NoBatch == stock_results = <<>> /\ securities = <<>> /\ summary = <<>>
NoGrid ==
    /\ param_combinations = <<>>
    /\ dispatched = 0
    /\ running = <<>>
    /\ map_results = <<>>
NoBayes ==
    /\ trial_count = 0
    /\ study_best = <<>>
    /\ cb_best_value = <<>>
    /\ n_steps_without_improvement = 0
    /\ stop_flag = FALSE
NoSearch == NoGrid /\ NoBayes
NoOther == NoSignals /\ NoOptimizer /\ NoBatch /\ NoSearch

Init ==
    /\ pc = "execute_trades"
    /\ config \in {StrategyConfig(m) : m \in MinHoldChoices}
    /\ ExecStart
    /\ NoTable
    /\ NoStats
    /\ NoConfigObject
    /\ NoOther

\* The caller's table has a further row.
MoreRows == Len(df) < MaxLen

Next ==
    \/ \E in \in Rows : MoreRows /\ Idle(in)
    \/ \E in \in Rows : MoreRows /\ BuySkipped(in)
    \/ \E in \in Rows : MoreRows /\ Buy(in)
    \/ \E in \in Inputs : MoreRows /\ Hold(in)
    \/ \E in \in Inputs : MoreRows /\ SellSkipped(in)
    \/ \E in \in Inputs : MoreRows /\ Sell(in)
    \/ Return

Spec == Init /\ [][Next]_vars

----------------------------------------------------------------------------
(* execute_trades on longer tables with fewer prices: runs with two round  *)
(* trips.                                                                   *)

LongNextOpens == {NaN, R(10), R(12)}
LongRows ==
    [buy_condition : BOOLEAN, sell_condition : BOOLEAN, next_open : LongNextOpens,
     close : Closes]
LongInputs ==
    [buy_condition : BOOLEAN, sell_condition : BOOLEAN, next_open : LongNextOpens,
     close : Closes, open : {R(10)}, high : Closes]

MoreLongRows == Len(df) < MaxLongLen

NextLong ==
    \/ \E in \in LongRows : MoreLongRows /\ Idle(in)
    \/ \E in \in LongRows : MoreLongRows /\ BuySkipped(in)
    \/ \E in \in LongRows : MoreLongRows /\ Buy(in)
    \/ \E in \in LongInputs : MoreLongRows /\ Hold(in)
    \/ \E in \in LongInputs : MoreLongRows /\ SellSkipped(in)
    \/ \E in \in LongInputs : MoreLongRows /\ Sell(in)
    \/ Return

SpecLong == Init /\ [][NextLong]_vars

----------------------------------------------------------------------------
(* backtest_strategy: the preparation of the table, then execute_trades on *)
(* it.  The table arrives in date order, so sort_values leaves it as it    *)
(* is; the signal generators are abstracted to the two flags of each row.  *)

\* Values of the open column as delivered: a gap, a negative price, zero, two
\* valid prices.
RawOpens == {NaN, R(-1), Zero, R(10), R(12)}

RECURSIVE FFillFrom(_, _)
\* Series.ffill: a gap takes the last value before it.
FFillFrom(col, last) ==
    IF col = <<>> THEN <<>>
    ELSE LET v == IF IsNaN(col[1]) THEN last ELSE col[1]
         IN  <<v>> \o FFillFrom(Tail(col), v)
FFill(col) == FFillFrom(col, NaN)

Reverse(col) == [i \in 1..Len(col) |-> col[Len(col) + 1 - i]]
\* Series.bfill: a gap takes the next value after it.
BFill(col) == Reverse(FFill(Reverse(col)))
\* Series.shift(-1): every value moves one row up, the last row becomes a gap.
Shift(col) == IF col = <<>> THEN <<>> ELSE Tail(col) \o <<NaN>>

\* df[col].ffill().bfill() of the integrity check.
Repair(col) == BFill(FFill(col))
\* df['open'].shift(-1), then ffill().bfill().
NextOpen(col) == BFill(FFill(Shift(col)))

\* The columns the check at the head of backtest_strategy asks for.
required_columns ==
    {"trade_date", "open", "close", "MA", "MA_slope", "Band_price_position", "RSD",
     "pct_chg", "Upper_Band", "Lower_Band", "price_position_cross",
     "90d_price_position", "prev_Band_price_position", "prev_90d_price_position"}
\* The columns generate_buy_signals and generate_sell_signals index beyond
\* those; "main_net_volume_ratio" is the column '主力净量率'.  Indexing a
\* column the table lacks raises KeyError.
\* Mutant: the generators read nothing beyond the required columns.
SignalColumns_None == {}
SignalColumns == {"main_net_volume_ratio", "CLOSE_slope", "prev_RSD", "RSD_chg"}
\* Columns of the input contract the run never indexes unguarded: 'high' is
\* read only when present, 'low' and 'volume' not at all.
OptionalColumns == {"high", "low", "volume"}
AllColumns == required_columns \cup SignalColumns \cup OptionalColumns

\* A table as delivered: complete, or lacking one column.
ColumnSets == {AllColumns} \cup {AllColumns \ {c} : c \in AllColumns}

missing_columns == required_columns \ columns
\* The try block of backtest_strategy raises before execute_trades is called.
Raises == missing_columns # {} \/ ~(SignalColumns \subseteq columns)

\* The dict of the except branch.
ZeroedResults ==
    [trades |-> 0, win_rate |-> Zero, total_profit |-> Zero, profit_rate |-> Zero,
     trade_records |-> <<>>,
     kelly_params |-> [win_rate |-> Zero, odds |-> Zero, kelly_fraction |-> Zero],
     trade_stats |-> [avg_win |-> Zero, avg_loss |-> Zero, max_drawdown |-> Zero]]

\* The try block up to the call of execute_trades.
Prepare ==
    /\ pc = "backtest_strategy"
    /\ ~Raises
    /\ open_col' = Repair(open_col)
    /\ next_open_col' = NextOpen(open_col')
    /\ pc' = "execute_trades"
    /\ UNCHANGED <<config, df, cash, position, trades, profits, buy_price,
                   buy_date, highest_price, results, columns, statsVars, cfgVars, otherVars>>

\* The except branch: the error is logged, the zeroed dict and an empty
\* DataFrame are returned.
Failed ==
    /\ pc = "backtest_strategy"
    /\ Raises
    /\ pc' = "failed"
    /\ results' = ZeroedResults
    /\ df' = <<>>
    /\ UNCHANGED <<config, cash, position, trades, profits, buy_price,
                   buy_date, highest_price, tableVars, statsVars, cfgVars, otherVars>>

\* Row Len(df)+1 of the prepared table, with any flags; without a 'high'
\* column the day's high is the close.
TableRows ==
    IF Len(df) < Len(next_open_col)
    THEN [buy_condition : BOOLEAN, sell_condition : BOOLEAN,
          next_open : {next_open_col[Len(df) + 1]}, close : Closes]
    ELSE {}
TableInputs ==
    IF Len(df) < Len(next_open_col)
    THEN {in \in [buy_condition : BOOLEAN, sell_condition : BOOLEAN,
                   next_open : {next_open_col[Len(df) + 1]}, close : Closes,
                   open : {open_col[Len(df) + 1]}, high : Highs] :
             "high" \in columns \/ in.high = in.close}
    ELSE {}

TableDone == Len(df) = Len(next_open_col)

InitBacktest ==
    /\ pc = "backtest_strategy"
    /\ config \in {StrategyConfig(m) : m \in MinHoldChoices}
    /\ ExecStart
    /\ open_col \in UNION {[1..n -> RawOpens] : n \in 0..MaxRows}
    /\ next_open_col = <<>>
    /\ columns \in ColumnSets
    /\ NoStats
    /\ NoConfigObject
    /\ NoOther

NextBacktest ==
    \/ Prepare
    \/ Failed
    \/ \E in \in TableRows : Idle(in)
    \/ \E in \in TableRows : BuySkipped(in)
    \/ \E in \in TableRows : Buy(in)
    \/ \E in \in TableInputs : Hold(in)
    \/ \E in \in TableInputs : SellSkipped(in)
    \/ \E in \in TableInputs : Sell(in)
    \/ TableDone /\ Return

SpecBacktest == InitBacktest /\ [][NextBacktest]_vars

----------------------------------------------------------------------------
(* The summary functions called on their own. *)

ProfitVals == {NaN, R(-2), Zero, R(1), R(2)}
WinRates == {Norm(k, KellyGrid) : k \in 0..KellyGrid}
OddsVals == {Norm(j, 2) : j \in -2..MaxOdds}

\* calculate_max_drawdown on the list with one more trade.
AppendProfit(p) ==
    /\ pc = "stats"
    /\ Len(stat_profits) < MaxProfits
    /\ stat_profits' = Append(stat_profits, p)
    /\ stat_dd' = calculate_max_drawdown(stat_profits')
    /\ UNCHANGED <<execVars, tableVars, kelly_args, kelly_ret, cfgVars, otherVars>>

CallKellyFraction(win_rate, odds) ==
    /\ pc = "stats"
    /\ kelly_args' = <<win_rate, odds>>
    /\ kelly_ret' = calculate_kelly_fraction(win_rate, odds)
    /\ UNCHANGED <<execVars, tableVars, stat_profits, stat_dd, cfgVars, otherVars>>

\* As execute_trades does: the parameters of a profits list, then the fraction.
CallKellyOnProfits ==
    /\ pc = "stats"
    /\ kelly_args' = calculate_kelly_parameters(stat_profits)
    /\ kelly_ret' = calculate_kelly_fraction(kelly_args'[1], kelly_args'[2])
    /\ UNCHANGED <<execVars, tableVars, stat_profits, stat_dd, cfgVars, otherVars>>

InitStats ==
    /\ pc = "stats"
    /\ config = StrategyConfig(MIN_HOLD_DAYS)
    /\ ExecStart
    /\ NoTable
    /\ NoStats
    /\ NoConfigObject
    /\ NoOther

NextStats ==
    \/ \E p \in ProfitVals : AppendProfit(p)
    \/ \E w \in WinRates, o \in OddsVals : CallKellyFraction(w, o)
    \/ CallKellyOnProfits

SpecStats == InitStats /\ [][NextStats]_vars

----------------------------------------------------------------------------
(* StrategyConfig as an object: __init__ and update_params.  Parameter     *)
(* values are opaque.                                                       *)

\* The attributes __init__ sets on the instance.
ConfigParams ==
    {"INITIAL_AMOUNT", "MIN_HOLD_DAYS", "VSHAPE_PREV_PRICE_POSITION",
     "VSHAPE_PCT_CHG_MIN", "VSHAPE_CONDITIONS", "BUY_CONDITIONS",
     "SELL_CONDITIONS", "SELL_COMMON_CONDITIONS"}
\* The attributes the class body gives every instance.
ClassAttrs == {"__init__", "update_params"}

ParamNames == ConfigParams \cup ClassAttrs \cup {"UNKNOWN_PARAM"}
ParamValues == {"a", "b"}

\* dict.items(): <<key, value>> pairs with distinct keys, in insertion order.
ParamDicts ==
    { items \in UNION {[1..n -> ParamNames \X ParamValues] : n \in 0..MaxParams} :
        \A i, j \in 1..Len(items) : i # j => items[i][1] # items[j][1] }

hasattr(attrs, key) == key \in DOMAIN attrs \/ key \in ClassAttrs
setattr(attrs, key, value) ==
    [k \in DOMAIN attrs \cup {key} |-> IF k = key THEN value ELSE attrs[k]]

RECURSIVE UpdateLoop(_, _, _)
\* The for loop of update_params: <<instance attributes, warnings>> at its end.
UpdateLoop(items, attrs, log) ==
    IF items = <<>> THEN <<attrs, log>>
    ELSE LET key == items[1][1]
             value == items[1][2]
         IN  IF hasattr(attrs, key)
             THEN UpdateLoop(Tail(items), setattr(attrs, key, value), log)
             ELSE UpdateLoop(Tail(items), attrs, Append(log, key))

update_params(params) ==
    /\ pc = "config"
    /\ Len(cfg_call) < MaxCalls
    /\ cfg' = UpdateLoop(params, cfg, cfg_log)[1]
    /\ cfg_log' = UpdateLoop(params, cfg, cfg_log)[2]
    /\ cfg_call' = Append(cfg_call, [params |-> params, before |-> cfg,
                                     log_before |-> cfg_log])
    /\ UNCHANGED <<execVars, tableVars, statsVars, otherVars>>

InitConfig ==
    /\ pc = "config"
    /\ config = StrategyConfig(MIN_HOLD_DAYS)
    /\ ExecStart
    /\ NoTable
    /\ NoStats
    /\ cfg = [k \in ConfigParams |-> "default"]
    /\ cfg_log = <<>>
    /\ cfg_call = <<>>
    /\ NoOther

NextConfig == \E params \in ParamDicts : update_params(params)

SpecConfig == InitConfig /\ [][NextConfig]_vars

----------------------------------------------------------------------------
(* generate_sell_signals: the statements of the function, each over the    *)
(* whole table.  The reasons '简化卖出条件' and '止盈条件' are rendered         *)
(* "technical_exhaustion" and "profit_taking".                              *)

\* Indicator values on both sides of every threshold the function uses.
RSDs == {R(7), R(9), R(11)}
BandPositions == {Norm(1, 2), Norm(4, 5)}
PctChgs == {R(-2), Zero, R(6)}
IndicatorRows == [RSD : RSDs, Band_price_position : BandPositions, pct_chg : PctChgs]

simple_sell_condition(r) ==
    /\ RGt(r.RSD, R(8))
    /\ RGt(r.Band_price_position, Norm(7, 10))
    /\ RLt(r.pct_chg, R(-1))
profit_take_condition(r) ==
    /\ RGt(r.pct_chg, R(5))
    /\ RGt(r.RSD, R(10))

\* df['sell_condition'] = False; df['sell_reason'] = ""
InitSellColumns(table) ==
    [i \in 1..Len(table) |->
        [RSD |-> table[i].RSD, Band_price_position |-> table[i].Band_price_position,
         pct_chg |-> table[i].pct_chg, sell_condition |-> FALSE, sell_reason |-> ""]]
\* df.loc[mask, column] = value; mask is a boolean per row.
SetWhere(table, mask, column, value) ==
    [i \in 1..Len(table) |->
        IF mask[i] THEN [table[i] EXCEPT ![column] = value] ELSE table[i]]
\* The masks, evaluated on the table as it is when the statement runs.
SimpleSellMask(table) == [i \in 1..Len(table) |-> simple_sell_condition(table[i])]
\* profit_take_condition & ~df['sell_condition'], of both of the last two
\* assignments.
ProfitTakeUnmarked(table) ==
    [i \in 1..Len(table) |-> profit_take_condition(table[i]) /\ ~table[i].sell_condition]

SellSignals(table) ==
    LET t0 == InitSellColumns(table)
        t1 == SetWhere(t0, SimpleSellMask(t0), "sell_condition", TRUE)
        t2 == SetWhere(t1, SimpleSellMask(t0), "sell_reason", "technical_exhaustion")
        t3 == SetWhere(t2, ProfitTakeUnmarked(t2), "sell_condition", TRUE)
        t4 == SetWhere(t3, ProfitTakeUnmarked(t3), "sell_reason", "profit_taking")
    IN  t4

generate_sell_signals ==
    /\ pc = "signals"
    /\ sig_df' = SellSignals(sig_df)
    /\ pc' = "signals_done"
    /\ UNCHANGED <<config, df, cash, position, trades, profits, buy_price, buy_date,
                   highest_price, results, tableVars, statsVars, cfgVars, optVars,
                   batchVars, searchVars>>

InitSignals ==
    /\ pc = "signals"
    /\ config = StrategyConfig(MIN_HOLD_DAYS)
    /\ ExecStart
    /\ NoTable
    /\ NoStats
    /\ NoConfigObject
    /\ sig_df \in UNION {[1..n -> IndicatorRows] : n \in 0..MaxSigRows}
    /\ NoOptimizer
    /\ NoBatch
    /\ NoSearch

NextSignals == generate_sell_signals

SpecSignals == InitSignals /\ [][NextSignals]_vars

----------------------------------------------------------------------------
(* generate_buy_signals(df, config): the statements of the function, each   *)
(* over the whole table.  The reasons '主力净量率+涨幅', '横盘突破' and          *)
(* '简单技术组合' are rendered "main_net_rate", "sideways_breakout" and        *)
(* "simple_combination".                                                    *)

\* Indicator values on both sides of the thresholds in the function's body
\* and of those in the configurations below.
MainNetRatios == {Norm(2, 25), Norm(3, 20), Norm(1, 4)}
PrevBandPositions == {Norm(1, 2), Norm(9, 10)}
CloseSlopes == {Zero, Norm(3, 50)}
PrevRSDs == {R(6), R(9)}
RSDChgs == {Zero, Norm(3, 20)}
BuyPctChgs == {Zero, R(3)}
BuyRSDs == {R(4), R(6)}
BuyIndicatorRows ==
    [main_net_volume_ratio : MainNetRatios,
     prev_Band_price_position : PrevBandPositions,
     CLOSE_slope : CloseSlopes, prev_RSD : PrevRSDs, RSD_chg : RSDChgs,
     pct_chg : BuyPctChgs, RSD : BuyRSDs]

\* BUY_CONDITIONS of a StrategyConfig built without parameters, and one a
\* caller passes in StrategyConfig(params).
DefaultBuyConditions ==
    [CONDITION1 |-> [MAIN_NET_RATE_MIN |-> Norm(1, 5),
                     PREV_PRICE_POSITION_MAX |-> R(1)],
     CONDITION4 |-> [CLOSE_SLOPE_MIN |-> Norm(2, 25), PREV_RSD_MAX |-> R(5),
                     RSD_CHG_MIN |-> Norm(1, 5)]]
LooseBuyConditions ==
    [CONDITION1 |-> [MAIN_NET_RATE_MIN |-> Norm(1, 20),
                     PREV_PRICE_POSITION_MAX |-> R(1)],
     CONDITION4 |-> [CLOSE_SLOPE_MIN |-> Norm(1, 20), PREV_RSD_MAX |-> R(10),
                     RSD_CHG_MIN |-> Norm(1, 10)]]
BuyConfigs ==
    [INITIAL_AMOUNT : {INITIAL_AMOUNT}, MIN_HOLD_DAYS : {MIN_HOLD_DAYS},
     BUY_CONDITIONS : {DefaultBuyConditions, LooseBuyConditions}]

\* The three clauses, with the thresholds written in the function.
main_net_rate_condition(r) ==
    /\ RGe(r.main_net_volume_ratio, Norm(1, 10))
    /\ RLe(r.prev_Band_price_position, R(1))
upper_trend_condition4(r) ==
    /\ RGt(r.CLOSE_slope, Norm(1, 20))
    /\ RLe(r.prev_RSD, R(8))
    /\ RGe(r.RSD_chg, Norm(1, 10))
simple_buy_condition(r) ==
    /\ RGt(r.pct_chg, R(2))
    /\ RGt(r.main_net_volume_ratio, Norm(1, 20))
    /\ RGt(r.RSD, R(5))
    /\ RLt(r.prev_Band_price_position, Norm(4, 5))

\* df['buy_condition'] = False; df['buy_reason'] = ""
InitBuyColumns(table) ==
    [i \in 1..Len(table) |->
        [main_net_volume_ratio |-> table[i].main_net_volume_ratio,
         prev_Band_price_position |-> table[i].prev_Band_price_position,
         CLOSE_slope |-> table[i].CLOSE_slope, prev_RSD |-> table[i].prev_RSD,
         RSD_chg |-> table[i].RSD_chg, pct_chg |-> table[i].pct_chg,
         RSD |-> table[i].RSD, buy_condition |-> FALSE, buy_reason |-> ""]]
MainNetRateMask(table) ==
    [i \in 1..Len(table) |-> main_net_rate_condition(table[i])]
UpperTrendMask(table) ==
    [i \in 1..Len(table) |-> upper_trend_condition4(table[i])]
SimpleBuyMask(table) ==
    [i \in 1..Len(table) |-> simple_buy_condition(table[i])]
\* Mutant: the reason is written on every row of the clause.
Unmarked_Every(mask, table) == mask
\* mask & ~df['buy_condition'], on the table as it is at the statement.
Unmarked(mask, table) ==
    [i \in 1..Len(table) |-> mask[i] /\ ~table[i].buy_condition]

\* The body of the function.  conf is the parameter config, which no
\* statement reads.
BuySignals(table, conf) ==
    LET t0 == InitBuyColumns(table)
        t1 == SetWhere(t0, Unmarked(MainNetRateMask(t0), t0),
                       "buy_reason", "main_net_rate")
        t2 == SetWhere(t1, MainNetRateMask(t0), "buy_condition", TRUE)
        t3 == SetWhere(t2, Unmarked(UpperTrendMask(t0), t2),
                       "buy_reason", "sideways_breakout")
        t4 == SetWhere(t3, UpperTrendMask(t0), "buy_condition", TRUE)
        t5 == SetWhere(t4, Unmarked(SimpleBuyMask(t0), t4),
                       "buy_reason", "simple_combination")
        t6 == SetWhere(t5, SimpleBuyMask(t0), "buy_condition", TRUE)
    IN  t6

generate_buy_signals ==
    /\ pc = "buy_signals"
    /\ sig_df' = BuySignals(sig_df, config)
    /\ pc' = "buy_signals_done"
    /\ UNCHANGED <<config, df, cash, position, trades, profits, buy_price, buy_date,
                   highest_price, results, tableVars, statsVars, cfgVars, optVars,
                   batchVars, searchVars>>

InitBuySignals ==
    /\ pc = "buy_signals"
    /\ config \in BuyConfigs
    /\ ExecStart
    /\ NoTable
    /\ NoStats
    /\ NoConfigObject
    /\ sig_df \in UNION {[1..n -> BuyIndicatorRows] : n \in 0..MaxBuyRows}
    /\ NoOptimizer
    /\ NoBatch
    /\ NoSearch

NextBuySignals == generate_buy_signals

SpecBuySignals == InitBuySignals /\ [][NextBuySignals]_vars

----------------------------------------------------------------------------
(* ParameterOptimizer (src/param_optimizer.py): run_backtest_with_params    *)
(* and evaluate_params, called by a search one combination after another.   *)
(* An exception that leaves evaluate_params ends the search ("aborted").     *)

\* Parameter combinations are opaque; "None" is an argument that is no dict,
\* on which apply_params_to_strategy raises AttributeError at params.get.
ParamCombos == {"P1", "P2"}
TrialParams == ParamCombos \cup {"None"}
\* A stock file of the batch: not there, of size 0, or holding data.
FileStates == {"missing", "empty", "data"}
FileLists == UNION {[1..n -> FileStates] : n \in 0..MaxStocks}

\* The initial capital run_backtest_with_params divides by.
initial_amount == 100000
\* The score of a disqualified combination.
SentinelScore == R(-999)

\* 'except Exception' catches every exception class raised here.
\* Mutant: the handlers catch ValueError only.
Catches_OnlyValueError(exc) == exc = "ValueError"
Catches(exc) == exc \in {"AttributeError", "TypeError", "KeyError", "ValueError"}

\* backtest.backtest_strategy(stock_file): one argument for a function whose
\* parameters df and stock_code are both required, so the call raises
\* TypeError before the callee's body is entered.
BacktestCall(file) == "TypeError"

\* apply_params_to_strategy(params): the StrategyConfig built from the
\* combination.  run_backtest_with_params drops the value returned.
apply_params_to_strategy(params) == [built_from |-> params]
\* The configuration a backtest_strategy call of run_backtest_with_params
\* runs under: the call passes no config, so the callee would take
\* default_config.
ConfigUsed(params) == [built_from |-> "default_config"]
\* Whether the iteration for a file runs execute_trades: only inside a
\* backtest_strategy call that is entered.
RunsExecutor(file) == file = "data" /\ BacktestCall(file) = ""

\* The body of the loop over the stock files for one file: "" when the
\* iteration ends normally (nothing was appended to all_results), else the
\* exception that leaves the inner try.
SecurityStep(file) ==
    IF file \in {"missing", "empty"} THEN ""
    ELSE IF Catches(BacktestCall(file)) THEN "" ELSE BacktestCall(file)

\* {'profit_rate': -999, 'win_rate': 0, 'trades': 0}
SentinelResult ==
    [raised |-> "", profit_rate |-> R(-999), win_rate |-> Zero, trades |-> 0]

RECURSIVE SumTrades(_)
SumTrades(rs) == IF rs = <<>> THEN 0 ELSE rs[1].trades + SumTrades(Tail(rs))
RECURSIVE SumProfit(_)
SumProfit(rs) == IF rs = <<>> THEN Zero ELSE RAdd(rs[1].total_profit, SumProfit(Tail(rs)))
RECURSIVE SumWins(_)
SumWins(rs) ==
    IF rs = <<>> THEN Zero
    ELSE RAdd(RMul(R(rs[1].trades), rs[1].win_rate), SumWins(Tail(rs)))

\* The summary of all_results at the end of run_backtest_with_params.
Summarise(all_results) ==
    IF all_results = <<>> THEN SentinelResult
    ELSE LET total_trades == SumTrades(all_results)
             total_profit == SumProfit(all_results)
             total_initial_capital == initial_amount * Len(all_results)
             total_return == RMul(RDiv(total_profit, R(total_initial_capital)), R(100))
             win_trades == SumWins(all_results)
         IN  IF total_trades = 0 THEN SentinelResult
             ELSE [raised |-> "", profit_rate |-> total_return,
                   win_rate |-> RDiv(win_trades, R(total_trades)),
                   trades |-> total_trades]

\* The first exception that leaves the loop over the files, "" if none does.
RECURSIVE LoopRaises(_)
LoopRaises(files) ==
    IF files = <<>> THEN ""
    ELSE IF SecurityStep(files[1]) # "" THEN SecurityStep(files[1])
    ELSE LoopRaises(Tail(files))

\* What the call hands to evaluate_params: a result dict, or (raised # "")
\* an exception.
run_backtest_with_params(params, files) ==
    LET raised == IF params = "None" THEN "AttributeError" ELSE LoopRaises(files)
    IN  IF raised = "" THEN Summarise(<<>>)
        ELSE IF Catches(raised) THEN SentinelResult
        ELSE [raised |-> raised, profit_rate |-> Zero, win_rate |-> Zero, trades |-> 0]

\* Mutant: the floor is one trade higher.
TooFewTrades_AtMostFive(n) == n <= 5
TooFewTrades(n) == n < 5
CompositeScore(profit_rate, win_rate) ==
    RAdd(RMul(profit_rate, Norm(6, 10)), RMul(RMul(win_rate, R(100)), Norm(4, 10)))
\* Mutant: a score equal to the best also replaces it.
BeatsBest_OrTies(score) == best_score = <<>> \/ RGe(score, best_score[1])
\* score > self.best_score, best_score starting at -inf.
BeatsBest(score) == best_score = <<>> \/ RGt(score, best_score[1])

\* evaluate_params from the result of run_backtest_with_params on; batch is
\* what the result was computed from.
Evaluate(params, batch, result) ==
    LET score == CompositeScore(result.profit_rate, result.win_rate)
        call == [params |-> params, batch |-> batch, result |-> result]
    IN
    /\ pc = "optimizer"
    /\ Len(trial_log) < MaxTrials
    /\ IF result.raised # ""
       THEN /\ pc' = "aborted"
            /\ trial_log' = Append(trial_log, [call |-> call, returned |-> NaN])
            /\ UNCHANGED <<results_history, best_score, best_params>>
       ELSE IF TooFewTrades(result.trades)
       THEN /\ trial_log' = Append(trial_log, [call |-> call, returned |-> SentinelScore])
            /\ UNCHANGED <<pc, results_history, best_score, best_params>>
       ELSE /\ results_history' =
                  Append(results_history,
                         [params |-> params, profit_rate |-> result.profit_rate,
                          win_rate |-> result.win_rate, trades |-> result.trades,
                          score |-> score])
            /\ best_score' = IF BeatsBest(score) THEN <<score>> ELSE best_score
            /\ best_params' = IF BeatsBest(score) THEN <<params>> ELSE best_params
            /\ trial_log' = Append(trial_log, [call |-> call, returned |-> score])
            /\ UNCHANGED pc
    /\ UNCHANGED <<config, df, cash, position, trades, profits, buy_price, buy_date,
                   highest_price, results, tableVars, statsVars, cfgVars, sigVars,
                   batchVars, searchVars>>

evaluate_params(params, files) ==
    Evaluate(params, files, run_backtest_with_params(params, files))

InitOptimizer ==
    /\ pc = "optimizer"
    /\ config = StrategyConfig(MIN_HOLD_DAYS)
    /\ ExecStart
    /\ NoTable
    /\ NoStats
    /\ NoConfigObject
    /\ NoOther

NextOptimizer == \E params \in TrialParams, files \in FileLists : evaluate_params(params, files)

SpecOptimizer == InitOptimizer /\ [][NextOptimizer]_vars

----------------------------------------------------------------------------
(* evaluate_params on batches that yield results.  As the optimizer calls   *)
(* backtest_strategy no security yields one; here the per-security results  *)
(* that reach all_results are drawn, and the summary and the scoring are    *)
(* applied to them.                                                         *)

\* What run_backtest_with_params reads of a security's results; only results
\* with trades > 0 are appended to all_results.
SecurityResults ==
    [trades : {2, 3}, win_rate : {Zero, R(1)}, total_profit : {R(-5000), R(20000)}]
Batches == UNION {[1..n -> SecurityResults] : n \in 0..MaxStocks}

evaluate_batch(params, all_results) ==
    Evaluate(params, all_results, Summarise(all_results))

NextScoring ==
    \E params \in ParamCombos, all_results \in Batches : evaluate_batch(params, all_results)

SpecScoring == InitOptimizer /\ [][NextScoring]_vars

----------------------------------------------------------------------------
(* grid_search from the process pool on: executor.map(self.evaluate_params, *)
(* param_combinations).  Every call travels to a worker process as the      *)
(* pickled bound method, so it runs on a copy of the optimizer as the       *)
(* parent holds it; what comes back is the call's return value.  As in      *)
(* SpecScoring the per-security results of a call are drawn.                *)

Workers == 1..MaxWorkers
GridBatches == {<<>>} \cup {<<r, r>> : r \in SecurityResults}
GridCalls == [params : ParamCombos, all_results : GridBatches]

\* The return value of evaluate_params on a copy of the optimizer.  The
\* copy's results_history, best_score and best_params, which the call
\* updates, end with the call.
EvaluateOnCopy(call) ==
    LET result == Summarise(call.all_results)
    IN  IF TooFewTrades(result.trades) THEN SentinelScore
        ELSE CompositeScore(result.profit_rate, result.win_rate)

\* A free worker process takes the next call from the queue.
Dispatch(w) ==
    /\ pc = "grid_search"
    /\ running[w] = 0
    /\ dispatched < Len(param_combinations)
    /\ dispatched' = dispatched + 1
    /\ running' = [running EXCEPT ![w] = dispatched + 1]
    /\ UNCHANGED <<execVars, tableVars, statsVars, cfgVars, sigVars, optVars, batchVars,
                   param_combinations, map_results, bayesVars>>

\* The worker's evaluate_params returns; the parent receives the score.
Complete(w) ==
    /\ pc = "grid_search"
    /\ running[w] # 0
    /\ map_results' =
          [map_results EXCEPT ![running[w]] =
              <<EvaluateOnCopy(param_combinations[running[w]])>>]
    /\ running' = [running EXCEPT ![w] = 0]
    /\ UNCHANGED <<execVars, tableVars, statsVars, cfgVars, sigVars, optVars, batchVars,
                   param_combinations, dispatched, bayesVars>>

\* list(...) has every result: save_results() and return self.best_params,
\* both of the parent's object.
GridReturn ==
    /\ pc = "grid_search"
    /\ \A i \in 1..Len(param_combinations) : map_results[i] # <<>>
    /\ pc' = "grid_done"
    /\ UNCHANGED <<config, df, cash, position, trades, profits, buy_price, buy_date,
                   highest_price, results, tableVars, statsVars, cfgVars, otherVars>>

InitGrid ==
    /\ pc = "grid_search"
    /\ config = StrategyConfig(MIN_HOLD_DAYS)
    /\ ExecStart
    /\ NoTable
    /\ NoStats
    /\ NoConfigObject
    /\ NoSignals
    /\ NoOptimizer
    /\ NoBatch
    /\ param_combinations \in UNION {[1..n -> GridCalls] : n \in 0..MaxCombos}
    /\ dispatched = 0
    /\ running = [w \in Workers |-> 0]
    /\ map_results = [i \in 1..Len(param_combinations) |-> <<>>]
    /\ NoBayes

NextGrid ==
    \/ \E w \in Workers : Dispatch(w)
    \/ \E w \in Workers : Complete(w)
    \/ GridReturn

SpecGrid == InitGrid /\ [][NextGrid]_vars

----------------------------------------------------------------------------
(* bayesian_optimization: the loop of study.optimize, one trial after       *)
(* another, each followed by the CustomStopCallback.  The score a trial's   *)
(* evaluate_params call returns is drawn; of the optimizer's fields the     *)
(* running best is kept, the history is left to SpecOptimizer and           *)
(* SpecScoring.  The study minimizes -score; its best value is that of the  *)
(* best COMPLETE trial, and asking for it while there is none raises        *)
(* ValueError.  Trial numbers start at 0.                                   *)

n_trials == 40
n_steps == 15
interval_steps == 3
\* What evaluate_params returns: -999 for a batch of fewer than 5 trades
\* (the optimizer is then left as it was), else the score, which it records
\* as the best when it beats the best so far.
TrialScores == {SentinelScore, R(10), R(20)}

\* if score < -500: trial.report(-1, step=1); raise optuna.TrialPruned()
Pruned(score) == RLt(score, R(-500))
\* return -score
ObjectiveValue(score) == RSub(Zero, score)

\* The study's best trial once a trial with this score has finished.
StudyBestAfter(params, score) ==
    IF Pruned(score) THEN study_best
    ELSE IF study_best = <<>> \/ RLt(ObjectiveValue(score), study_best[1].value)
    THEN <<[value |-> ObjectiveValue(score), params |-> params]>>
    ELSE study_best

\* current_best < self.best_value, best_value starting at inf.
Improves(current_best) ==
    cb_best_value = <<>> \/ RLt(current_best, cb_best_value[1])

\* One trial of the study: objective(trial), then the callback.
Trial(params, score) ==
    LET number == trial_count
        best == StudyBestAfter(params, score)
        steps == IF Improves(best[1].value) THEN 0
                 ELSE n_steps_without_improvement + interval_steps
    IN
    /\ pc = "bayes"
    /\ ~stop_flag
    /\ trial_count < n_trials
    /\ trial_count' = trial_count + 1
    /\ study_best' = best
    /\ IF score # SentinelScore /\ BeatsBest(score)
       THEN best_score' = <<score>> /\ best_params' = <<params>>
       ELSE UNCHANGED <<best_score, best_params>>
    /\ IF number % interval_steps # 0
       THEN UNCHANGED <<pc, cb_best_value, n_steps_without_improvement, stop_flag>>
       ELSE IF best = <<>>
       THEN /\ pc' = "bayes_raised"
            /\ UNCHANGED <<cb_best_value, n_steps_without_improvement, stop_flag>>
       ELSE /\ cb_best_value' =
                  (IF Improves(best[1].value) THEN <<best[1].value>> ELSE cb_best_value)
            /\ n_steps_without_improvement' = steps
            /\ stop_flag' = (steps >= n_steps)
            /\ UNCHANGED pc
    /\ UNCHANGED <<config, df, cash, position, trades, profits, buy_price, buy_date,
                   highest_price, results, tableVars, statsVars, cfgVars, sigVars,
                   results_history, trial_log, batchVars, gridVars>>

\* study.optimize returns: the study's best becomes the optimizer's.
BayesReturn ==
    /\ pc = "bayes"
    /\ stop_flag \/ trial_count = n_trials
    /\ IF study_best = <<>>
       THEN pc' = "bayes_raised" /\ UNCHANGED <<best_score, best_params>>
       ELSE /\ pc' = "bayes_done"
            /\ best_params' = <<study_best[1].params>>
            /\ best_score' = <<RSub(Zero, study_best[1].value)>>
    /\ UNCHANGED <<config, df, cash, position, trades, profits, buy_price, buy_date,
                   highest_price, results, tableVars, statsVars, cfgVars, sigVars,
                   results_history, trial_log, batchVars, searchVars>>

InitBayes ==
    /\ pc = "bayes"
    /\ config = StrategyConfig(MIN_HOLD_DAYS)
    /\ ExecStart
    /\ NoTable
    /\ NoStats
    /\ NoConfigObject
    /\ NoOther

NextBayes ==
    \/ \E params \in ParamCombos, score \in TrialScores : Trial(params, score)
    \/ BayesReturn

SpecBayes == InitBayes /\ [][NextBayes]_vars

----------------------------------------------------------------------------
(* The batch driver main of src/backtest.py: one backtest_strategy run per  *)
(* security of the file, then the aggregate figures.  groupby yields every  *)
(* stock code once; a security's code is its place in the batch.            *)

\* The realized profits of the runs that complete.
BatchProfits == {<<>>, <<R(2000)>>, <<R(-2000)>>, <<R(2000), R(-1000)>>}

\* What execute_trades returns for a run that sold with the profits ps (the
\* trade records, which main does not read, left out).
RunResults(ps) ==
    LET total_profit == IF ps # <<>> THEN RSum(ps) ELSE Zero
        win_rate == IF ps # <<>> THEN RDiv(R(Len(Winning(ps))), R(Len(ps))) ELSE Zero
        kelly == calculate_kelly_parameters(ps)
    IN  [trades |-> Len(ps),
         win_rate |-> win_rate,
         total_profit |-> total_profit,
         profit_rate |-> RMul(RDiv(total_profit, R(INITIAL_AMOUNT)), R(100)),
         trade_records |-> <<>>,
         kelly_params |-> [win_rate |-> kelly[1], odds |-> kelly[2],
                           kelly_fraction |-> calculate_kelly_fraction(kelly[1], kelly[2])],
         trade_stats |-> [avg_win |-> kelly[1], avg_loss |-> kelly[2],
                          max_drawdown |-> calculate_max_drawdown(ps)]]

\* backtest_strategy as main sees it: the run fails and the zeroed dict comes
\* back, or it completes.
RunOutcomes ==
    {[failed |-> TRUE, results |-> ZeroedResults]}
        \cup {[failed |-> FALSE, results |-> RunResults(ps)] : ps \in BatchProfits}

\* One turn of the loop over the securities.
ProcessSecurity(outcome) ==
    /\ pc = "main"
    /\ Len(securities) < MaxSecurities
    /\ stock_results' = Append(stock_results, outcome.results)
    /\ securities' = Append(securities, [stock_code |-> Len(securities) + 1,
                                         failed |-> outcome.failed])
    /\ UNCHANGED <<execVars, tableVars, statsVars, cfgVars, sigVars, optVars, summary,
                   searchVars>>

\* The aggregate figures main prints from unique_results.
Aggregate(unique_results) ==
    LET n == Len(unique_results)
        Ids == 1..n
        total_trades == RSum([i \in Ids |-> R(unique_results[i].trades)])
        total_profit == RSum([i \in Ids |-> unique_results[i].total_profit])
        initial_total_capital == INITIAL_AMOUNT * n
        avg_kelly_win_rate ==
            RDiv(RSum([i \in Ids |-> unique_results[i].kelly_params.win_rate]), R(n))
        avg_kelly_odds ==
            RDiv(RSum([i \in Ids |-> unique_results[i].kelly_params.odds]), R(n))
        weighted ==
            RSum([i \in Ids |-> RMul(unique_results[i].kelly_params.kelly_fraction,
                                     R(unique_results[i].trades))])
    IN  [tested |-> n,
         total_trades |-> total_trades,
         total_profit |-> total_profit,
         initial_total_capital |-> initial_total_capital,
         total_return |-> RMul(RDiv(total_profit, R(initial_total_capital)), R(100)),
         avg_win_rate |-> RDiv(RSum([i \in Ids |-> unique_results[i].win_rate]), R(n)),
         avg_kelly_win_rate |-> avg_kelly_win_rate,
         avg_kelly_odds |-> avg_kelly_odds,
         avg_kelly_fraction |-> calculate_kelly_fraction(avg_kelly_win_rate, avg_kelly_odds),
         weighted_kelly_fraction |->
             IF RGt(total_trades, Zero) THEN RDiv(weighted, total_trades) ELSE Zero]

\* The loop is through and the batch held a security: the report.
Report ==
    /\ pc = "main"
    /\ stock_results # <<>>
    /\ summary' = <<Aggregate(stock_results)>>
    /\ pc' = "main_done"
    /\ UNCHANGED <<config, df, cash, position, trades, profits, buy_price, buy_date,
                   highest_price, results, tableVars, statsVars, cfgVars, sigVars,
                   optVars, stock_results, securities, searchVars>>

\* The loop is through and the batch was empty: total_profit /
\* initial_total_capital is 0 / 0 and main ends in ZeroDivisionError.
ReportEmpty ==
    /\ pc = "main"
    /\ stock_results = <<>>
    /\ pc' = "main_raised"
    /\ UNCHANGED <<config, df, cash, position, trades, profits, buy_price, buy_date,
                   highest_price, results, tableVars, statsVars, cfgVars, otherVars>>

InitBatch ==
    /\ pc = "main"
    /\ config = StrategyConfig(MIN_HOLD_DAYS)
    /\ ExecStart
    /\ NoTable
    /\ NoStats
    /\ NoConfigObject
    /\ NoOther

NextBatch ==
    \/ \E outcome \in RunOutcomes : ProcessSecurity(outcome)
    \/ Report
    \/ ReportEmpty

SpecBatch == InitBatch /\ [][NextBatch]_vars

----------------------------------------------------------------------------
(* Properties of execute_trades.                                            *)

RowIds == 1..Len(df)
BuyRows == {i \in RowIds : df[i].signal = "buy"}
SellRows == {i \in RowIds : df[i].signal = "sell"}
Initial == R(config.INITIAL_AMOUNT)

\* What row i inherited from row i-1.
CashBefore(i) == IF i = 1 THEN Initial ELSE df[i - 1].cash_balance
QtyBefore(i) == IF i = 1 THEN Zero ELSE df[i - 1].position_qty
CumProfitBefore(i) == IF i = 1 THEN Zero ELSE df[i - 1].cum_profit
\* The row of the entry of the position held when row i is reached.
EntryRow(i) == CHOOSE e \in BuyRows : e < i /\ \A b \in BuyRows : b < i => b <= e
Returned == pc = "done"

\* C1: in a series without a buy-eligible row no trade is made: the trade
\* count is 0, no row carries a trade, the cash balance of every row and the
\* cash at the end are the initial capital, and the result says 0 trades and
\* has an empty trade record list.
C1_NoBuyEligibleNoTrades ==
    (\A i \in RowIds : ~df[i].buy_condition) =>
        /\ trades = 0
        /\ TradeRecords(df) = <<>>
        /\ \A i \in RowIds : df[i].cash_balance = Initial
        /\ cash = Initial
        /\ Returned => results.trades = 0 /\ results.trade_records = <<>>

\* A returned run of two or more rows, none buy-eligible, one of them
\* sell-eligible with a valid price.
C1_Witness ==
    /\ Returned
    /\ Len(df) >= 2
    /\ \A i \in RowIds : ~df[i].buy_condition
    /\ \E i \in RowIds : df[i].sell_condition /\ df[i].next_open = R(12)
    /\ results.trades = 0

\* C2 (as claimed): the returned 'trades' is the number of sell records.
C2_TradesCountsSells ==
    Returned => results.trades = Cardinality(SellRows)

\* C3: a sell is never recorded fewer than MIN_HOLD_DAYS rows after the row
\* of its entry; with MIN_HOLD_DAYS = 2 the row after an entry does not sell
\* even when sell-eligible, and the second row after it sells when it is
\* sell-eligible and its price is a number >= 0.
C3_MinHoldRespected ==
    /\ \A j \in SellRows : j - EntryRow(j) >= config.MIN_HOLD_DAYS
    /\ config.MIN_HOLD_DAYS = 2 =>
          \A i \in BuyRows : RGt(df[i].buy_qty, Zero) =>
              /\ i + 1 \in RowIds => df[i + 1].signal # "sell"
              /\ (/\ i + 2 \in RowIds
                  /\ df[i + 2].sell_condition
                  /\ RGe(df[i + 2].next_open, Zero))
                 => df[i + 2].signal = "sell"

\* MIN_HOLD_DAYS = 2: entry, a sell-eligible row that does not exit, then a
\* sell-eligible row that does.
C3_Witness ==
    /\ config.MIN_HOLD_DAYS = 2
    /\ \E i \in BuyRows :
          /\ i + 2 \in SellRows
          /\ df[i + 1].sell_condition
          /\ RGe(df[i + 1].next_open, Zero)
          /\ df[i + 1].signal = ""

\* The row the step has just processed, and what it found there.
NewRow == df'[Len(df')]
RowProcessed == Len(df') = Len(df) + 1
BuySkipCase ==
    /\ position = Zero
    /\ NewRow.buy_condition
    /\ IsNaN(NewRow.next_open) \/ RLe(NewRow.next_open, Zero)
SellSkipCase ==
    /\ RGt(position, Zero)
    /\ Len(df) - buy_date >= config.MIN_HOLD_DAYS
    /\ NewRow.sell_condition
    /\ IsNaN(NewRow.next_open) \/ RLt(NewRow.next_open, Zero)
BuyCase ==
    /\ position = Zero
    /\ NewRow.buy_condition
    /\ RGt(NewRow.next_open, Zero)
SellCase ==
    /\ RGt(position, Zero)
    /\ Len(df) - buy_date >= config.MIN_HOLD_DAYS
    /\ NewRow.sell_condition
    /\ RGe(NewRow.next_open, Zero)

\* C5: a buy whose price is missing or <= 0, and a sell (minimum hold
\* satisfied) whose price is missing or < 0, is skipped: the row carries no
\* trade, cash, held quantity, trade count and cumulative profit are those of
\* the end of the previous row, and the loop goes on; a row that is eligible
\* with a valid price trades, whatever was skipped before it.
C5_StepSkipsInvalidPrice ==
    RowProcessed =>
        /\ (BuySkipCase \/ SellSkipCase) =>
              /\ NewRow.signal = ""
              /\ NewRow.trade_price = Zero
              /\ NewRow.buy_qty = Zero /\ NewRow.sell_qty = Zero
              /\ NewRow.cash_balance = cash /\ cash' = cash
              /\ NewRow.position_qty = position /\ position' = position
              /\ trades' = trades
              /\ profits' = profits
              /\ NewRow.cum_profit = (IF df = <<>> THEN Zero ELSE df[Len(df)].cum_profit)
              /\ pc' = "execute_trades"
        /\ BuyCase => NewRow.signal = "buy"
        /\ SellCase => NewRow.signal = "sell"
C5_InvalidPriceSkipped == [][C5_StepSkipsInvalidPrice]_vars

\* A buy skipped at price 0, the buy executed on the next row, then a sell
\* skipped for a missing price.
C5_Witness ==
    /\ Len(df) = 3
    /\ df[1].buy_condition /\ df[1].next_open = Zero /\ df[1].signal = ""
    /\ df[2].signal = "buy"
    /\ df[3].sell_condition /\ IsNaN(df[3].next_open) /\ df[3].signal = ""
    /\ 3 - 2 >= config.MIN_HOLD_DAYS
    /\ RGt(position, Zero)

\* C6: a buy at price p > 0 with cash c records the quantity c / p, leaves no
\* cash, holds exactly the quantity bought and starts the high-water price at
\* p; 10000 at 10 buys 1000.
C6_BuyConvertsAllCash ==
    /\ \A i \in BuyRows :
          /\ RGt(df[i].trade_price, Zero)
          /\ df[i].trade_price = df[i].next_open
          /\ RMul(df[i].buy_qty, df[i].trade_price) = CashBefore(i)
          /\ df[i].cash_balance = Zero
          /\ df[i].position_qty = df[i].buy_qty
          /\ (CashBefore(i) = R(10000) /\ df[i].trade_price = R(10))
                => df[i].buy_qty = R(1000)
    /\ (df # <<>> /\ df[Len(df)].signal = "buy") =>
          /\ highest_price = df[Len(df)].trade_price
          /\ buy_price = df[Len(df)].trade_price
          /\ cash = Zero
          /\ position = df[Len(df)].buy_qty

\* The spec's scenario, and a buy of a quantity that is no whole number.
C6_Witness ==
    /\ Len(df) = 3
    /\ BuyRows = {1}
    /\ df[1].trade_price = R(10) /\ df[1].buy_qty = R(1000)
    /\ df[3].cash_balance = Zero
    /\ config.MIN_HOLD_DAYS = 0

\* C7: a sell of q shares bought at b, at price s, liquidates the position,
\* adds q*s to the cash, records the profit q*(s-b) and the return (s-b)/b,
\* adds the profit to the cumulative profit and leaves the run flat;
\* q = 1000, b = 10, s = 12 give 2000 and 1/5.
C7_SellLiquidates ==
    /\ \A j \in SellRows :
        LET q == QtyBefore(j)
            b == df[EntryRow(j)].trade_price
            s == df[j].trade_price
        IN  /\ s = df[j].next_open
            /\ df[j].sell_qty = q
            /\ df[j].position_qty = Zero
            /\ df[j].cash_balance = RAdd(CashBefore(j), RMul(q, s))
            /\ df[j].trade_profit = RSub(RMul(q, s), RMul(q, b))
            /\ RMul(df[j].trade_return, b) = RSub(s, b)
            /\ df[j].cum_profit = RAdd(CumProfitBefore(j), df[j].trade_profit)
            /\ (q = R(1000) /\ b = R(10) /\ s = R(12))
                  => df[j].trade_profit = R(2000) /\ df[j].trade_return = Norm(1, 5)
    /\ (df # <<>> /\ df[Len(df)].signal = "sell") =>
          /\ position = Zero
          /\ cash = df[Len(df)].cash_balance
          /\ profits # <<>>
          /\ profits[Len(profits)] = df[Len(df)].trade_profit

\* The spec's scenario: entry at 10, too early on day 1, exit at 12 on day 2.
C7_Witness ==
    /\ config.MIN_HOLD_DAYS = 2
    /\ Len(df) = 3
    /\ df[1].signal = "buy" /\ df[1].trade_price = R(10)
    /\ df[2].sell_condition /\ df[2].signal = ""
    /\ df[3].signal = "sell" /\ df[3].trade_price = R(12)
    /\ df[3].trade_profit = R(2000)
    /\ df[3].trade_return = Norm(1, 5)
    /\ cash = R(12000)

\* C16 (as claimed): on every row of the ledger, a row with a trade
\* included, the asset balance is the row's cash balance plus the row's held
\* quantity valued at the row's close.
C16_AssetBalanceIsCashPlusHolding ==
    \A i \in RowIds :
        df[i].asset_balance =
            RAdd(df[i].cash_balance, RMul(df[i].position_qty, df[i].close))

\* C18 (as claimed): trade_stats.avg_win is the mean of the positive
\* realized profits of the run and trade_stats.avg_loss the magnitude of the
\* mean of the negative ones, 0 when there are none.
C18_AvgWinAvgLossAreMeans ==
    Returned =>
        /\ results.trade_stats.avg_win =
              (IF Winning(profits) # <<>> THEN Mean(Winning(profits)) ELSE Zero)
        /\ results.trade_stats.avg_loss =
              (IF Losing(profits) # <<>> THEN RAbs(Mean(Losing(profits))) ELSE Zero)

\* The cumulative-profit sequence: the running sums of the realized profits.
CumulativeProfits(ps) == [k \in 1..Len(ps) |-> RSum(SubSeq(ps, 1, k))]
\* The highest value of a sequence up to its point j.
PeakUpTo(c, j) == CHOOSE m \in {c[i] : i \in 1..j} : \A i \in 1..j : RLe(c[i], m)
\* The relative decline of point j from the peak before it, 0 when that peak
\* is not positive.
DeclineAt(c, j) ==
    IF RGt(PeakUpTo(c, j), Zero)
    THEN RDiv(RSub(PeakUpTo(c, j), c[j]), PeakUpTo(c, j)) ELSE Zero
LargestDecline(c) ==
    IF c = <<>> THEN Zero
    ELSE CHOOSE d \in {DeclineAt(c, j) : j \in 1..Len(c)} :
             \A j \in 1..Len(c) : RLe(DeclineAt(c, j), d)

\* C19 (as claimed): the max_drawdown of the result is the largest
\* peak-to-trough relative decline of the cumulative-profit sequence of the
\* run, the running sums of the profits of its successive sells.
C19_DrawdownOfCumulativeProfits ==
    Returned =>
        results.trade_stats.max_drawdown = LargestDecline(CumulativeProfits(profits))

\* The realized profits of the sells recorded on rows 1..i, in row order.
RECURSIVE RealizedUpTo(_)
RealizedUpTo(i) ==
    IF i = 0 THEN <<>>
    ELSE RealizedUpTo(i - 1)
             \o (IF df[i].signal = "sell" THEN <<df[i].trade_profit>> ELSE <<>>)

\* C27: a position still open after the last row is not closed: the entry
\* has no sell record, the last ledger row holds a positive quantity, and
\* total_profit, profit_rate and win_rate of the result are those of the
\* realized sells alone.
C27_OpenPositionNotClosed ==
    (Returned /\ df # <<>> /\ RGt(position, Zero)) =>
        LET realized == RealizedUpTo(Len(df))
            last_buy == CHOOSE b \in BuyRows : \A c \in BuyRows : c <= b
        IN  /\ \A j \in SellRows : j < last_buy
            /\ RGt(df[Len(df)].position_qty, Zero)
            /\ Cardinality(SellRows) = Len(realized)
            /\ results.total_profit = RSum(realized)
            /\ results.profit_rate = RMul(RDiv(RSum(realized), Initial), R(100))
            /\ results.win_rate =
                  (IF realized = <<>> THEN Zero
                   ELSE RDiv(R(Len(Winning(realized))), R(Len(realized))))

\* A run that sold once at a profit, bought again and ended holding: the
\* result counts the 2000 realized and nothing for the shares held.
C27_Witness ==
    /\ Returned
    /\ Len(df) = 3
    /\ df[1].signal = "buy" /\ df[2].signal = "sell" /\ df[3].signal = "buy"
    /\ df[3].trade_price = R(10)
    /\ RGt(position, Zero)
    /\ results.total_profit = R(2000)
    /\ results.win_rate = R(1)

\* C28: after every row the cash balance is >= 0, the held quantity is >= 0,
\* and a positive held quantity goes with a cash balance of exactly 0.  (It
\* holds of every input series, those with negative prices included, since
\* no trade is filled at a negative price.)
C28_CashOrSharesNeverBoth ==
    /\ \A i \in RowIds :
          /\ RGe(df[i].cash_balance, Zero)
          /\ RGe(df[i].position_qty, Zero)
          /\ RGt(df[i].position_qty, Zero) => df[i].cash_balance = Zero
    /\ RGe(cash, Zero) /\ RGe(position, Zero)
    /\ RGt(position, Zero) => cash = Zero

\* Fully invested on row 1, still so on a row whose sale was skipped for its
\* negative price, back in cash on row 3.
C28_Witness ==
    /\ Len(df) = 3
    /\ df[1].signal = "buy" /\ df[1].cash_balance = Zero
    /\ df[2].sell_condition /\ df[2].next_open = R(-1) /\ df[2].signal = ""
    /\ config.MIN_HOLD_DAYS = 0
    /\ RGt(df[2].position_qty, Zero) /\ df[2].cash_balance = Zero
    /\ df[3].signal = "sell" /\ df[3].position_qty = Zero
    /\ RGt(df[3].cash_balance, Zero)

\* C29: on every row the cumulative profit is the sum of the realized
\* profits of the sells recorded up to and including the row, and when the
\* row ends without shares its cash balance is the initial capital plus that
\* cumulative profit.
C29_CumulativeProfitAndCash ==
    \A i \in RowIds :
        /\ df[i].cum_profit = RSum(RealizedUpTo(i))
        /\ df[i].position_qty = Zero =>
              df[i].cash_balance = RAdd(Initial, df[i].cum_profit)

\* A sale at a loss: 10000 / 12 shares sold at 10.
C29_Witness ==
    /\ Len(df) = 3
    /\ df[1].signal = "buy" /\ df[1].trade_price = R(12)
    /\ df[2].signal = "sell" /\ df[2].trade_price = R(10)
    /\ df[2].cum_profit = Norm(-5000, 3)
    /\ df[3].signal = "" /\ df[3].cash_balance = Norm(25000, 3)

\* The rows that carry a trade, in date order.
TradeRows == TradeRecords(df)

\* C30 (as claimed): on a series whose opening prices are all >= 0 the trade
\* records, in date order, alternate buy, sell, buy, ... starting with a
\* buy, and every buy record has a strictly positive quantity; so buys minus
\* sells is 0 or 1.  (A row has one signal column, so it carries at most one
\* trade.)
C30_TradesAlternate ==
    (\A i \in RowIds : RGe(df[i].next_open, Zero)) =>
        /\ \A k \in 1..Len(TradeRows) :
              /\ TradeRows[k].signal = (IF k % 2 = 1 THEN "buy" ELSE "sell")
              /\ TradeRows[k].signal = "buy" => RGt(TradeRows[k].buy_qty, Zero)
        /\ Cardinality(BuyRows) - Cardinality(SellRows) \in {0, 1}

----------------------------------------------------------------------------
(* Properties of backtest_strategy.                                         *)

Prepared == pc # "backtest_strategy"
LastRow == Len(open_col)

\* C4 (as claimed): a trade recorded on row i is filled at the open of row
\* i+1, and no trade is recorded on the last row of the table, which has no
\* next day.  (The claim's reason for the latter, that the last row's
\* execution price is missing, is not part of the formula.)
C4_FilledAtNextOpen ==
    Prepared =>
        \A i \in RowIds :
            df[i].signal \in {"buy", "sell"} =>
                i < LastRow /\ df[i].trade_price = open_col[i + 1]

\* The columns the run indexes without a guard, by name.
ColumnsRead ==
    {"trade_date", "open", "close", "MA", "MA_slope", "Band_price_position", "RSD",
     "pct_chg", "Upper_Band", "Lower_Band", "price_position_cross",
     "90d_price_position", "prev_Band_price_position", "prev_90d_price_position",
     "main_net_volume_ratio", "CLOSE_slope", "prev_RSD", "RSD_chg"}

\* C12: backtest_strategy always comes back with a result; on a table that
\* lacks a column the run needs no trade is executed and what comes back is
\* the zeroed result (0 trades, win rate, total profit and profit rate 0, no
\* trade records, Kelly parameters and trade statistics all 0) and an empty
\* ledger.
C12_ErrorGivesZeroedResult ==
    /\ pc \in {"backtest_strategy", "execute_trades", "done", "failed"}
    /\ (Prepared /\ ~(ColumnsRead \subseteq columns)) => pc = "failed"
    /\ pc = "failed" =>
          /\ results.trades = 0
          /\ results.win_rate = Zero
          /\ results.total_profit = Zero
          /\ results.profit_rate = Zero
          /\ results.trade_records = <<>>
          /\ results.kelly_params =
                [win_rate |-> Zero, odds |-> Zero, kelly_fraction |-> Zero]
          /\ results.trade_stats =
                [avg_win |-> Zero, avg_loss |-> Zero, max_drawdown |-> Zero]
          /\ df = <<>>

\* A table of three rows that passes the column check and lacks a column
\* generate_buy_signals reads has come back zeroed.
C12_Witness ==
    /\ pc = "failed"
    /\ columns = AllColumns \ {"CLOSE_slope"}
    /\ Len(open_col) = 3
    /\ results.trades = 0

\* The fields of the input contract: trade_date, open, high, low, close,
\* volume, the band fields, RSD and RSD-change, band-position and previous
\* band-position, MA-slope, close-slope, main-net-volume-ratio.
ContractColumns ==
    {"trade_date", "open", "high", "low", "close", "volume", "MA", "Upper_Band",
     "Lower_Band", "RSD", "RSD_chg", "Band_price_position",
     "prev_Band_price_position", "MA_slope", "CLOSE_slope", "main_net_volume_ratio"}

\* C13 (as claimed): a table that lacks a field of the input contract is
\* rejected with the zeroed result.
C13_MissingContractFieldRejected ==
    (Prepared /\ ~(ContractColumns \subseteq columns)) =>
        pc = "failed" /\ results.trades = 0 /\ df = <<>>

----------------------------------------------------------------------------
(* Properties of the signal generators.                                     *)

SignalsDone == pc = "signals_done"

\* C20 (as claimed): after generate_sell_signals every sell-eligible row
\* carries a reason, the technical-exhaustion reason where that predicate
\* holds and the profit-taking reason where only the profit-taking predicate
\* holds, and every other row carries the empty reason.
C20_SellEligibleRowsCarryReason ==
    SignalsDone =>
        \A i \in 1..Len(sig_df) :
            LET r == sig_df[i] IN
            /\ r.sell_condition => r.sell_reason # ""
            /\ simple_sell_condition(r) => r.sell_reason = "technical_exhaustion"
            /\ (profit_take_condition(r) /\ ~simple_sell_condition(r))
                  => r.sell_reason = "profit_taking"
            /\ ~r.sell_condition => r.sell_reason = ""

BuySignalsDone == pc = "buy_signals_done"

\* The name of the first clause, in evaluation order, that holds on a row.
FirstBuyClause(r) ==
    IF main_net_rate_condition(r) THEN "main_net_rate"
    ELSE IF upper_trend_condition4(r) THEN "sideways_breakout"
    ELSE IF simple_buy_condition(r) THEN "simple_combination"
    ELSE ""

\* C21: after generate_buy_signals a row is buy-eligible exactly when at
\* least one buy clause holds on it; its reason is the name of the first
\* clause, in evaluation order, that holds (a later clause that also holds
\* does not overwrite it), and a row that is not buy-eligible has an empty
\* reason.
C21_FirstClauseNamesReason ==
    BuySignalsDone =>
        \A i \in 1..Len(sig_df) :
            LET r == sig_df[i] IN
            /\ r.buy_condition = (FirstBuyClause(r) # "")
            /\ r.buy_reason = FirstBuyClause(r)

\* A table whose first row satisfies all three clauses and keeps the first
\* one's reason, and whose second row satisfies none.
C21_Witness ==
    /\ BuySignalsDone
    /\ Len(sig_df) = 2
    /\ main_net_rate_condition(sig_df[1])
    /\ upper_trend_condition4(sig_df[1])
    /\ simple_buy_condition(sig_df[1])
    /\ sig_df[1].buy_condition /\ sig_df[1].buy_reason = "main_net_rate"
    /\ ~sig_df[2].buy_condition /\ sig_df[2].buy_reason = ""

\* The clauses of config.BUY_CONDITIONS, with the configuration's values.
ConfigCondition1(r, c) ==
    /\ RGe(r.main_net_volume_ratio, c.CONDITION1.MAIN_NET_RATE_MIN)
    /\ RLe(r.prev_Band_price_position, c.CONDITION1.PREV_PRICE_POSITION_MAX)
ConfigCondition4(r, c) ==
    /\ RGe(r.CLOSE_slope, c.CONDITION4.CLOSE_SLOPE_MIN)
    /\ RLe(r.prev_RSD, c.CONDITION4.PREV_RSD_MAX)
    /\ RGe(r.RSD_chg, c.CONDITION4.RSD_CHG_MIN)

\* C22 (as claimed): a row is buy-eligible iff it satisfies at least one
\* clause of config.BUY_CONDITIONS with the values of the configuration
\* passed in; a row failing every clause under it is not buy-eligible.
C22_EligibilityFollowsConfig ==
    BuySignalsDone =>
        \A i \in 1..Len(sig_df) :
            sig_df[i].buy_condition =
                (\/ ConfigCondition1(sig_df[i], config.BUY_CONDITIONS)
                 \/ ConfigCondition4(sig_df[i], config.BUY_CONDITIONS))

----------------------------------------------------------------------------
(* Properties of the parameter optimizer.                                   *)

Trials == 1..Len(trial_log)

\* C11: evaluate_params returns -999 for every combination whose batch has
\* fewer than 5 trades in total, whatever its return and win rate, and for
\* every combination with 5 trades or more it returns
\* 0.6 * percentage return + 0.4 * (100 * win rate).
C11_ScoreWithTradeFloor ==
    \A t \in Trials :
        LET result == trial_log[t].call.result
            total == SumTrades(trial_log[t].call.batch)
        IN  /\ result.trades = total
            /\ total < 5 => trial_log[t].returned = R(-999)
            /\ total >= 5 =>
                  trial_log[t].returned =
                      RAdd(RMul(Norm(3, 5), result.profit_rate),
                           RMul(Norm(2, 5), RMul(R(100), result.win_rate)))

\* A combination with 4 trades, a return of 20% and only winners scored the
\* sentinel; one with 5 trades and the same return and win rate scored 52.
C11_Witness ==
    /\ Len(trial_log) = 2
    /\ trial_log[1].call.result =
          [raised |-> "", profit_rate |-> R(20), win_rate |-> R(1), trades |-> 4]
    /\ trial_log[1].returned = R(-999)
    /\ trial_log[2].call.result =
          [raised |-> "", profit_rate |-> R(20), win_rate |-> R(1), trades |-> 5]
    /\ trial_log[2].returned = R(52)

\* An exception was raised inside the trial's run_backtest_with_params: in
\* apply_params_to_strategy, or in the backtest of one of its securities.
RaisedInside(t) ==
    \/ trial_log[t].call.params = "None"
    \/ \E i \in 1..Len(trial_log[t].call.batch) : trial_log[t].call.batch[i] = "data"

C15_HistoryHoldsEveryTrial ==
    /\ Len(results_history) = Len(trial_log)
    /\ \A t \in Trials :
          /\ results_history[t].params = trial_log[t].call.params
          /\ results_history[t].score = trial_log[t].returned

\* C23 (as claimed): in every trial run_backtest_with_params runs the Trade
\* Executor for each security of the batch that has data, under the
\* configuration built from the trial's combination, and two trials with
\* different combinations are evaluated under different configurations.
C23_TrialRunsUnderItsConfig ==
    /\ \A t \in Trials :
          LET call == trial_log[t].call IN
          call.params \in ParamCombos =>
              \A f \in 1..Len(call.batch) :
                  call.batch[f] = "data" =>
                      /\ RunsExecutor(call.batch[f])
                      /\ ConfigUsed(call.params) = apply_params_to_strategy(call.params)
    /\ \A t, u \in Trials :
          (/\ trial_log[t].call.params \in ParamCombos
           /\ trial_log[u].call.params \in ParamCombos
           /\ trial_log[t].call.params # trial_log[u].call.params)
              => ConfigUsed(trial_log[t].call.params) # ConfigUsed(trial_log[u].call.params)

\* The history entries whose score no other entry exceeds.
HistoryIds == 1..Len(results_history)
TopEntries ==
    {h \in HistoryIds :
        \A g \in HistoryIds : RLe(results_history[g].score, results_history[h].score)}
\* best_score as an extended number: <<>> is -infinity.
ScoreLe(a, b) == a = <<>> \/ (b # <<>> /\ RLe(a[1], b[1]))

BestMatchesHistory ==
    IF results_history = <<>>
    THEN best_score = <<>> /\ best_params = <<>>
    ELSE /\ TopEntries # {}
         /\ LET first == CHOOSE h \in TopEntries : \A g \in TopEntries : h <= g
            IN  /\ best_score = <<results_history[first].score>>
                /\ best_params = <<results_history[first].params>>

\* C24: over any sequence of evaluate_params calls best_score never
\* decreases; it is the maximum score over the entries of results_history
\* (-infinity, with best_params None, while the history is empty), and
\* best_params is the combination of the earliest entry attaining it.
C24_BestTracksHistory ==
    /\ []BestMatchesHistory
    /\ [][ScoreLe(best_score, best_score')]_vars

\* Two entries of the same score under different combinations: the first
\* one's combination is kept.
C24_Witness ==
    /\ Len(results_history) = 2
    /\ results_history[1].score = results_history[2].score
    /\ results_history[1].params = "P1"
    /\ results_history[2].params = "P2"
    /\ best_params = <<"P1">>

\* The calls of a grid search that were scored, i.e. evaluated on 5 trades
\* or more.
GridScored ==
    {i \in 1..Len(param_combinations) :
        map_results[i] # <<>> /\ map_results[i] # <<SentinelScore>>}

BayesTrialStep == pc = "bayes" /\ trial_count' = trial_count + 1
\* The study's best value after the step strictly improves on the best the
\* callback last recorded.
BestImproved ==
    /\ study_best' # <<>>
    /\ cb_best_value = <<>> \/ RLt(study_best'[1].value, cb_best_value[1])

\* C26 (as claimed): the callback touches its state only after trials whose
\* number is a multiple of 3; there it sets the no-improvement counter to 0
\* if the study's best strictly improved on the best it last recorded and
\* adds 3 to it otherwise, and it stops the study exactly when the counter
\* reaches 15; the search ends only by that stop or after n_trials trials.
C26_StopAfterFiveCheckpoints ==
    [][/\ BayesTrialStep =>
            IF trial_count % 3 # 0
            THEN UNCHANGED <<cb_best_value, n_steps_without_improvement, stop_flag>>
            ELSE /\ n_steps_without_improvement' =
                       (IF BestImproved THEN 0 ELSE n_steps_without_improvement + 3)
                 /\ stop_flag' = (n_steps_without_improvement' >= 15)
       /\ (pc = "bayes" /\ pc' # "bayes") => (stop_flag \/ trial_count = 40)
       /\ trial_count' <= 40]_vars

----------------------------------------------------------------------------
(* Properties of the batch driver.                                          *)

RECURSIVE CompletedFrom(_)
CompletedFrom(i) ==
    IF i > Len(securities) THEN <<>>
    ELSE (IF securities[i].failed THEN <<>> ELSE <<stock_results[i]>>)
             \o CompletedFrom(i + 1)
\* The results of the securities whose run completed.
Completed == CompletedFrom(1)

\* C17 (as claimed): the aggregate figures of the report count only the
\* securities whose run completed: their number, the initial capital of that
\* many securities as the denominator of the return, and the win rate and
\* Kelly parameters averaged over them.
C17_AggregatesOverCompletedOnly ==
    pc = "main_done" =>
        LET n == Len(Completed)
            Ids == 1..n
        IN  /\ summary[1].tested = n
            /\ summary[1].initial_total_capital = INITIAL_AMOUNT * n
            /\ n > 0 =>
                  /\ RMul(summary[1].avg_win_rate, R(n))
                        = RSum([i \in Ids |-> Completed[i].win_rate])
                  /\ RMul(summary[1].avg_kelly_win_rate, R(n))
                        = RSum([i \in Ids |-> Completed[i].kelly_params.win_rate])
                  /\ RMul(summary[1].avg_kelly_odds, R(n))
                        = RSum([i \in Ids |-> Completed[i].kelly_params.odds])

----------------------------------------------------------------------------
(* Properties of the summary functions.                                     *)

\* C8: calculate_kelly_fraction returns a value in [0, 1/2] for every win
\* rate in [0, 1] and every odds value, and so does the fraction derived
\* from the profits of a run.
C8_KellyFractionInRange ==
    RGe(kelly_ret, Zero) /\ RLe(kelly_ret, Half)

\* The call with win_rate = 1 and odds = 0 has returned, after the call on a
\* profits list without a losing trade.
C8_Witness ==
    /\ kelly_args = <<R(1), Zero>>
    /\ kelly_ret = Zero
    /\ stat_profits = <<R(1), R(2)>>

\* C9: calculate_max_drawdown is 0 on the empty list and on every list of
\* one element, and its value on a list is never below its value on a prefix
\* of the list.
C9_MaxDrawdownMonotone ==
    /\ Len(stat_profits) <= 1 => stat_dd = Zero
    /\ \A k \in 0..Len(stat_profits) :
          RLe(calculate_max_drawdown(SubSeq(stat_profits, 1, k)), stat_dd)

\* A decline, then a recovery: the drawdown of the decline is kept.
C9_Witness ==
    /\ stat_profits = <<R(2), R(1), R(2)>>
    /\ stat_dd = Half

----------------------------------------------------------------------------
(* Properties of StrategyConfig.update_params.                              *)

\* C10 (as claimed): after a call whose mapping names something that is no
\* configuration parameter, that name is no attribute of the object and was
\* logged by the call, every parameter the mapping does not name is as it
\* was, and every parameter it names has the given value.
C10_UnknownNameOnlyLogged ==
    cfg_call # <<>> =>
        LET call == cfg_call[Len(cfg_call)]
            items == call.params
            keys == {items[i][1] : i \in 1..Len(items)}
            unknown == keys \ ConfigParams
        IN  unknown # {} =>
              /\ \A k \in unknown :
                    /\ k \notin DOMAIN cfg
                    /\ \E n \in (Len(call.log_before) + 1)..Len(cfg_log) : cfg_log[n] = k
              /\ \A q \in ConfigParams \ keys : cfg[q] = call.before[q]
              /\ \A i \in 1..Len(items) :
                    items[i][1] \in ConfigParams => cfg[items[i][1]] = items[i][2]

====
